---- MODULE Spec2Model ----
(***************************************************************************)
(* Telemetry ingestor: the request pipeline of routes/telemetry.rs         *)
(* (ingest_telemetry) over the storage calls of db/postgres.rs.            *)
(*                                                                         *)
(* Numbers.  A 64-bit float is a point of the half-unit grid,              *)
(*   [nan |-> FALSE, int |-> i, half |-> h]  =  i + (IF h THEN 0.5 ELSE 0) *)
(* or NaN.  The u64/i64 integers of serde_json::Number keep their          *)
(* two's-complement shape at a width of IntBits bits instead of 64: the    *)
(* unsigned range is 0..U64Max, the signed range I64Min..I64Max, and       *)
(* `u as i64` wraps modulo 2^IntBits.                                      *)
(***************************************************************************)
EXTENDS Integers, Sequences, FiniteSets, Bags, TLC

\* ------------------------------------------------------------------ bounds
IntBits == 3
MaxBatch == 2
MaxRows == 3
MaxClock == 4
TicksPerMs == 2

Requests == {"r1", "r2"}

\* --------------------------------------------------------------- integers
TwoPow == 2 ^ IntBits
U64Max == TwoPow - 1
I64Max == (TwoPow \div 2) - 1
I64Min == 0 - (TwoPow \div 2)

\* ----------------------------------------------------------------- floats
F(i) == [nan |-> FALSE, int |-> i, half |-> FALSE]
FHalf(i) == [nan |-> FALSE, int |-> i, half |-> TRUE]
NaN == [nan |-> TRUE, int |-> 0, half |-> FALSE]

\* f64 comparison a >= b; any comparison with NaN is false
FGe(a, b) ==
    /\ ~a.nan
    /\ ~b.nan
    /\ \/ a.int > b.int
       \/ a.int = b.int /\ (b.half => a.half)

\* f64 comparison a <= b
FLe(a, b) == FGe(b, a)

\* integer to float conversion `v as f64` (exact at this width)
IntAsF64(v) == F(v)

\* ------------------------------------------------------------ JSON values
\* serde_json::Value as the handler sees it: Number(PosInt u64 | NegInt i64
\* | Float f64), or a non-number (String, Bool, Null)
PosInt(u) == [tag |-> "PosInt", int |-> u, half |-> FALSE]
NegInt(i) == [tag |-> "NegInt", int |-> i, half |-> FALSE]
Float(i, h) == [tag |-> "Float", int |-> i, half |-> h]
JString == [tag |-> "String", int |-> 0, half |-> FALSE]
JBool(b) == [tag |-> "Bool", int |-> IF b THEN 1 ELSE 0, half |-> FALSE]
JNull == [tag |-> "Null", int |-> 0, half |-> FALSE]

IsNumber(value) == value.tag \in {"PosInt", "NegInt", "Float"}

\* Number::is_i64, is_u64, is_f64
is_i64(n) == (n.tag = "PosInt" /\ n.int <= I64Max) \/ n.tag = "NegInt"
is_u64(n) == n.tag = "PosInt"
is_f64(n) == n.tag = "Float"

\* Number::as_i64, as_u64, as_f64: [some |-> BOOLEAN, v |-> value]
as_i64(n) ==
    IF is_i64(n) THEN [some |-> TRUE, v |-> n.int] ELSE [some |-> FALSE, v |-> 0]
as_u64(n) ==
    IF is_u64(n) THEN [some |-> TRUE, v |-> n.int] ELSE [some |-> FALSE, v |-> 0]
as_f64(n) ==
    IF n.tag = "Float"
    THEN [nan |-> FALSE, int |-> n.int, half |-> n.half]
    ELSE IntAsF64(n.int)

\* the cast `u as i64`: reinterpret the unsigned bits as two's complement
U64AsI64(u) == IF u > I64Max THEN u - TwoPow ELSE u

\* --------------------------------------------------------------- registry
\* rows of signal_register_table, in the order fetch_all returns them
signal_register_table ==
    << [signal_name |-> "bilgeAlarm", signal_type |-> "digital"],
       [signal_name |-> "engineTemp", signal_type |-> "analog"] >>

\* the match on signal_type
KindOfType(signal_type) ==
    CASE signal_type = "digital" -> "Digital"
      [] signal_type = "analog" -> "Analog"
      [] OTHER -> "Analog"

\* faulty variant: an entry already in the map is kept (entry().or_insert)
MapInsert_KeepFirst(map, k, v) ==
    [x \in (DOMAIN map) \cup {k} |-> IF x \in DOMAIN map THEN map[x] ELSE v]

\* HashMap::insert: the later entry for a key replaces the earlier one
MapInsert(map, k, v) ==
    [x \in (DOMAIN map) \cup {k} |-> IF x = k THEN v ELSE map[x]]

RECURSIVE LoadRows(_, _)
LoadRows(rows, map) ==
    IF rows = <<>>
    THEN map
    ELSE LoadRows(Tail(rows),
                  MapInsert(map, Head(rows).signal_name,
                            KindOfType(Head(rows).signal_type)))

load_signal_registry(rows) == LoadRows(rows, [x \in {} |-> "Analog"])

\* state.signal_registry.get(name).copied(): "None" when the name is absent
RegistryGet(registry, name) ==
    IF name \in DOMAIN registry THEN registry[name] ELSE "None"

\* ------------------------------------------------------------- classifier
AnalogMin == 1
AnalogMax == 65535

Accepted(val_f) == [accepted |-> TRUE, value |-> val_f, reason |-> "accepted"]
Quarantined(val_f, reason) == [accepted |-> FALSE, value |-> val_f, reason |-> reason]

\* the integer v the digital arm compares with 0 and 1
DigitalInt(n) ==
    IF as_i64(n).some
    THEN as_i64(n).v
    ELSE IF as_u64(n).some
         THEN U64AsI64(as_u64(n).v)
         ELSE 0 - 1

\* faulty variant: is_int tests n.is_i64() only
ClassifyDigital_OnlyI64(n) ==
    IF is_i64(n)
    THEN LET v == DigitalInt(n) IN
         IF v = 0 \/ v = 1
         THEN Accepted(IF v = 1 THEN F(1) ELSE F(0))
         ELSE Quarantined(IntAsF64(v), "out_of_range")
    ELSE Quarantined(NaN, "type_mismatch")

\* (SignalKind::Digital, Number(n))
ClassifyDigital(n) ==
    IF is_i64(n) \/ is_u64(n)
    THEN LET v == DigitalInt(n) IN
         IF v = 0 \/ v = 1
         THEN Accepted(IF v = 1 THEN F(1) ELSE F(0))
         ELSE Quarantined(IntAsF64(v), "out_of_range")
    ELSE Quarantined(NaN, "type_mismatch")

\* faulty variant: the upper bound of the analog range is not tested
ClassifyAnalog_NoUpperBound(n) ==
    LET val_f == as_f64(n) IN
    IF FGe(val_f, F(AnalogMin))
    THEN Accepted(val_f)
    ELSE Quarantined(val_f, "out_of_range")

\* faulty variant: the lower bound is exclusive (val_f > 1.0)
ClassifyAnalog_ExclusiveMin(n) ==
    LET val_f == as_f64(n) IN
    IF FGe(val_f, F(AnalogMin)) /\ val_f # F(AnalogMin) /\ FLe(val_f, F(AnalogMax))
    THEN Accepted(val_f)
    ELSE Quarantined(val_f, "out_of_range")

\* (SignalKind::Analog, Number(n)) if n.is_f64()
ClassifyAnalog(n) ==
    LET val_f == as_f64(n) IN
    IF FGe(val_f, F(AnalogMin)) /\ FLe(val_f, F(AnalogMax))
    THEN Accepted(val_f)
    ELSE Quarantined(val_f, "out_of_range")

\* faulty variant: the value is taken with n.as_i64() instead of n.as_f64()
ClassifyUnknown_ViaI64(value) ==
    Quarantined(IF IsNumber(value) /\ as_i64(value).some
                THEN IntAsF64(as_i64(value).v)
                ELSE NaN, "unknown_signal")

\* None: unknown signal name
ClassifyUnknown(value) ==
    Quarantined(IF IsNumber(value) THEN as_f64(value) ELSE NaN, "unknown_signal")

\* the match on (kind_opt, value) of the classification loop
Classify(kind_opt, value) ==
    CASE kind_opt = "None" -> ClassifyUnknown(value)
      [] kind_opt = "Digital" /\ IsNumber(value) -> ClassifyDigital(value)
      [] kind_opt = "Analog" /\ IsNumber(value) /\ is_f64(value) -> ClassifyAnalog(value)
      [] OTHER -> Quarantined(NaN, "type_mismatch")

\* ------------------------------------------------------------------ inputs
SignalNames == {"bilgeAlarm", "engineTemp", "unknownSig"}

\* vessel_register_table
vessel_register_table ==
    { [vessel_id |-> "V100", is_active |-> TRUE],
      [vessel_id |-> "V200", is_active |-> FALSE] }

VesselIds == {"V100", "V200", "V999"}

\* timestampUTC strings and the instant DateTime::parse_from_rfc3339 gives
Rfc3339 ==
    [s \in {"2024-01-01T00:00:00Z", "2024-01-01T02:00:00+02:00"} |-> "2024-01-01T00:00:00Z"]
TimestampStrings == (DOMAIN Rfc3339) \cup {"yesterday"}

\* TelemetryRequest::parse_timestamp
parse_timestamp(p) ==
    IF p.timestampUTC \in DOMAIN Rfc3339
    THEN [ok |-> TRUE, ts |-> Rfc3339[p.timestampUTC]]
    ELSE [ok |-> FALSE, ts |-> "none"]

\* every value of the integer ranges, floats around the analog bounds
AllValues ==
    {PosInt(u) : u \in 0..U64Max}
    \cup {NegInt(i) : i \in I64Min..(0 - 1)}
    \cup {Float(i, h) : i \in {0 - 1, 0, 1, 42, AnalogMax - 1, AnalogMax, AnalogMax + 1},
                        h \in BOOLEAN}
    \cup {JString, JBool(TRUE), JNull}

\* the values of the scenarios: bilgeAlarm 1, engineTemp 42.5
SampleValues == {PosInt(1), Float(42, TRUE)}
SampleTimestamps == {"2024-01-01T02:00:00+02:00", "yesterday"}

SignalMaps(values, n) ==
    UNION {[S -> values] : S \in {T \in SUBSET SignalNames : Cardinality(T) <= n}}

TelemetryRequest(timestamps, values, n) ==
    [vesselId : VesselIds, timestampUTC : timestamps, signals : SignalMaps(values, n)]

NoRequest ==
    [vesselId |-> "", timestampUTC |-> "", signals |-> [x \in {} |-> JNull]]

\* ------------------------------------------------------------------- state
VARIABLES
    register_rows,      \* rows of signal_register_table, as fetch_all returns them
    boot,               \* main: "loading" before the registry is built, then "serving"
    signal_registry,    \* AppState.signal_registry
    authorization,      \* the Authorization header of each request
    clock,              \* Instant::now(), in ticks
    timer,              \* the Instants and elapsed milliseconds each handler holds
    mark,               \* clock readings at the steps of each request
    pc,                 \* where each request's handler stands
    payload,            \* the TelemetryRequest of each request
    ts,                 \* the parsed timestamp
    iter,               \* names payload.signals.iter() has still to yield
    valid_signals,      \* Vec<ParsedSignal>
    raw_pos,            \* position of the insert_raw loop in valid_signals
    response,           \* what the handler returned
    calls,              \* storage calls the request issued on the pool, in order
    main_raw,           \* table main_raw, a bag of rows
    filtered_raw,       \* table filtered_raw, a bag of rows
    server_metrics      \* table server_metrics, a bag of rows

vars == << register_rows, boot, signal_registry, authorization, clock, timer, mark,
           pc, payload, ts, iter, valid_signals, raw_pos,
           response, calls, main_raw, filtered_raw, server_metrics >>

\* what no request handler writes
untouched == << register_rows, boot, signal_registry, authorization, clock >>

NoResponse ==
    [status |-> "none", validSignals |-> 0 - 1,
     validationMs |-> 0 - 1, ingestionMs |-> 0 - 1, totalMs |-> 0 - 1]
\* Ok(Json(json!({..}))) with valid_signals.len() = n and the handler's timer t
OkResponse(n, t) ==
    [status |-> "OK", validSignals |-> n,
     validationMs |-> t.validation_ms, ingestionMs |-> t.ingestion_ms,
     totalMs |-> t.total_ms]
ErrResponse(status) ==
    [status |-> status, validSignals |-> 0 - 1,
     validationMs |-> 0 - 1, ingestionMs |-> 0 - 1, totalMs |-> 0 - 1]

\* ------------------------------------------------------------------ timing
NoTimer ==
    [total_start |-> 0, validation_start |-> 0, ingestion_start |-> 0,
     validation_ms |-> 0, ingestion_ms |-> 0, total_ms |-> 0]
NoMark == [vessel_called |-> 0, vessel_returned |-> 0, classified |-> 0, inserted |-> 0]

\* Duration::as_millis() as i64: whole milliseconds, the rest is dropped
as_millis(ticks) == ticks \div TicksPerMs

\* start.elapsed().as_millis() as i64
elapsed_ms(start) == as_millis(clock - start)

\* --------------------------------------------------------------- auth gate
\* strings are sequences of characters
BearerPrefix == << "B", "e", "a", "r", "e", "r", " " >>
\* state.cfg.api_token, never empty (Config::from_env)
api_token == << "k", "1" >>

\* str::strip_prefix
strip_prefix(str, prefix) ==
    IF Len(str) >= Len(prefix) /\ SubSeq(str, 1, Len(prefix)) = prefix
    THEN [some |-> TRUE, rest |-> SubSeq(str, Len(prefix) + 1, Len(str))]
    ELSE [some |-> FALSE, rest |-> << >>]

\* faulty variant: auth_header.trim_start_matches("Bearer "), which leaves a header
\* without the prefix as it is
BearerToken_TrimStart(auth_header) ==
    IF strip_prefix(auth_header, BearerPrefix).some
    THEN strip_prefix(auth_header, BearerPrefix).rest
    ELSE auth_header

\* auth_header.strip_prefix("Bearer ").unwrap_or("")
BearerToken(auth_header) ==
    IF strip_prefix(auth_header, BearerPrefix).some
    THEN strip_prefix(auth_header, BearerPrefix).rest
    ELSE << >>

\* Authorization header values; << >> is what a missing header reads as
AuthHeaders ==
    { << >>,
      BearerPrefix \o api_token,
      BearerPrefix,
      BearerPrefix \o << "k", "2" >>,
      BearerPrefix \o api_token \o << "1" >>,
      api_token,
      << "b", "e", "a", "r", "e", "r", " " >> \o api_token,
      << "B", "a", "s", "i", "c", " " >> \o api_token }

\* internal_err
internal_err == ErrResponse("INTERNAL_SERVER_ERROR")

Call(op, name, ok) == [op |-> op, name |-> name, ok |-> ok]

\* the state before any request has arrived
InitCommon ==
    /\ register_rows = signal_register_table
    /\ boot = "serving"
    /\ signal_registry = load_signal_registry(signal_register_table)
    /\ clock = 0
    /\ timer = [r \in Requests |-> NoTimer]
    /\ mark = [r \in Requests |-> NoMark]
    /\ ts = [r \in Requests |-> "none"]
    /\ iter = [r \in Requests |-> {}]
    /\ valid_signals = [r \in Requests |-> <<>>]
    /\ raw_pos = [r \in Requests |-> 1]
    /\ response = [r \in Requests |-> NoResponse]
    /\ calls = [r \in Requests |-> <<>>]
    /\ main_raw = EmptyBag
    /\ filtered_raw = EmptyBag
    /\ server_metrics = EmptyBag

\* names and type strings a row of signal_register_table may carry
RegisteredNames == {"bilgeAlarm", "engineTemp"}
SignalTypes == {"digital", "analog", "Digital", "pwm"}
RegisterRows == [signal_name : RegisteredNames, signal_type : SignalTypes]

RECURSIVE SeqsUpTo(_, _)
SeqsUpTo(S, n) ==
    IF n = 0 THEN {<< >>}
    ELSE LET shorter == SeqsUpTo(S, n - 1)
         IN shorter \cup {Append(q, x) : q \in {t \in shorter : Len(t) = n - 1}, x \in S}

\* the process has its pool and is about to load the registry: the table holds
\* up to MaxRows rows, no request has been accepted yet
InitLoad ==
    /\ register_rows \in SeqsUpTo(RegisterRows, MaxRows)
    /\ boot = "loading"
    /\ signal_registry = << >>
    /\ clock = 0
    /\ timer = [r \in Requests |-> NoTimer]
    /\ mark = [r \in Requests |-> NoMark]
    /\ ts = [r \in Requests |-> "none"]
    /\ iter = [r \in Requests |-> {}]
    /\ valid_signals = [r \in Requests |-> <<>>]
    /\ raw_pos = [r \in Requests |-> 1]
    /\ response = [r \in Requests |-> NoResponse]
    /\ calls = [r \in Requests |-> <<>>]
    /\ main_raw = EmptyBag
    /\ filtered_raw = EmptyBag
    /\ server_metrics = EmptyBag
    /\ pc = [r \in Requests |-> "idle"]
    /\ authorization = [r \in Requests |-> << >>]
    /\ payload = [r \in Requests |-> NoRequest]

Init ==
    /\ InitCommon
    /\ pc = [r \in Requests |-> "idle"]
    /\ authorization = [r \in Requests |-> << >>]
    /\ payload = [r \in Requests |-> NoRequest]

\* request r1 has passed the gate and entered the handler with payload p
InFlight(p) ==
    /\ pc = [r \in Requests |-> IF r = "r1" THEN "parse_timestamp" ELSE "idle"]
    /\ authorization =
          [r \in Requests |-> IF r = "r1" THEN BearerPrefix \o api_token ELSE << >>]
    /\ payload = [r \in Requests |-> IF r = "r1" THEN p ELSE NoRequest]

\* one request in flight, carrying at most one reading of any value
InitReading ==
    /\ InitCommon
    /\ \E p \in TelemetryRequest(TimestampStrings, AllValues, 1) : InFlight(p)

\* one request in flight, with the readings of the scenarios
InitOne ==
    /\ InitCommon
    /\ \E p \in TelemetryRequest(SampleTimestamps, SampleValues, MaxBatch) : InFlight(p)

\* ----------------------------------------------------------------- actions
\* main awaits load_signal_registry: the rows are fetched and folded into the
\* map the router is built with, or the query fails and main returns the error
LoadRegistry ==
    /\ boot = "loading"
    /\ \E ok \in BOOLEAN :
         IF ok
         THEN /\ signal_registry' = load_signal_registry(register_rows)
              /\ boot' = "serving"
         ELSE /\ boot' = "failed"
              /\ UNCHANGED signal_registry
    /\ UNCHANGED << register_rows, authorization, clock, timer, mark, pc, payload, ts,
                    iter, valid_signals, raw_pos, response, calls,
                    main_raw, filtered_raw, server_metrics >>

\* the handler returns Err(status): the request is over
Return(r, resp) ==
    /\ response' = [response EXCEPT ![r] = resp]
    /\ pc' = [pc EXCEPT ![r] = "done"]

\* a POST /api/v1/telemetry arrives, with some Authorization header or none
Arrive(r) ==
    /\ boot = "serving"
    /\ pc[r] = "idle"
    /\ \E h \in AuthHeaders : authorization' = [authorization EXCEPT ![r] = h]
    /\ pc' = [pc EXCEPT ![r] = "auth"]
    /\ UNCHANGED << register_rows, boot, signal_registry, clock, timer, mark,
                    payload, ts, iter, valid_signals, raw_pos, response,
                    calls, main_raw, filtered_raw, server_metrics >>

\* auth_middleware: 401 unless the header is "Bearer " followed by the token
AuthMiddleware(r) ==
    /\ pc[r] = "auth"
    /\ LET token == BearerToken(authorization[r]) IN
       IF token = << >> \/ token # api_token
       THEN Return(r, ErrResponse("UNAUTHORIZED"))
       ELSE /\ pc' = [pc EXCEPT ![r] = "next"]
            /\ UNCHANGED response
    /\ UNCHANGED << untouched, timer, mark, payload, ts, iter, valid_signals, raw_pos,
                    calls, main_raw, filtered_raw, server_metrics >>

\* next.run(req): axum hands the deserialised TelemetryRequest to
\* ingest_telemetry, which takes total_start
Receive(r) ==
    /\ pc[r] = "next"
    /\ \E p \in TelemetryRequest(SampleTimestamps, SampleValues, MaxBatch) :
         payload' = [payload EXCEPT ![r] = p]
    /\ pc' = [pc EXCEPT ![r] = "parse_timestamp"]
    /\ timer' = [timer EXCEPT ![r].total_start = clock]
    /\ UNCHANGED << untouched, mark, ts, iter, valid_signals, raw_pos, response,
                    calls, main_raw, filtered_raw, server_metrics >>

\* payload.parse_timestamp().map_err(BAD_REQUEST)?, then validation_start is
\* taken and vessel_exists is called
ParseTimestamp(r) ==
    /\ pc[r] = "parse_timestamp"
    /\ LET parsed == parse_timestamp(payload[r]) IN
       IF parsed.ok
       THEN /\ ts' = [ts EXCEPT ![r] = parsed.ts]
            /\ pc' = [pc EXCEPT ![r] = "validate_vessel"]
            /\ timer' = [timer EXCEPT ![r].validation_start = clock]
            /\ mark' = [mark EXCEPT ![r].vessel_called = clock]
            /\ UNCHANGED response
       ELSE /\ Return(r, ErrResponse("BAD_REQUEST"))
            /\ UNCHANGED << ts, timer, mark >>
    /\ UNCHANGED << untouched, payload, iter, valid_signals, raw_pos,
                    calls, main_raw, filtered_raw, server_metrics >>

\* INSERT INTO table VALUES (row)
InsertRow(table, row) == table (+) SetToBag({row})

FilteredRow(r, name, val_f, reason) ==
    [req |-> r, vessel_id |-> payload[r].vesselId, timestamp_utc |-> ts[r],
     signal_name |-> name, signal_value |-> val_f, reason |-> reason]

RawRow(r, sig) ==
    [req |-> r, vessel_id |-> payload[r].vesselId, timestamp_utc |-> ts[r],
     signal_name |-> sig.name, signal_value |-> sig.value]

MetricsRow(r) ==
    [req |-> r, vessel_id |-> payload[r].vesselId,
     validation_ms |-> timer[r].validation_ms,
     ingestion_ms |-> timer[r].ingestion_ms,
     total_ms |-> timer[r].total_ms]

\* the EXISTS query of vessel_exists
vessel_exists(vessel_id) ==
    \E v \in vessel_register_table : v.vessel_id = vessel_id /\ v.is_active

\* faulty variant: a metrics row is recorded for a request rejected as FORBIDDEN
ValidateVessel_MetricsOnReject(r) ==
    /\ pc[r] = "validate_vessel"
    /\ mark' = [mark EXCEPT ![r].vessel_returned = clock]
    /\ \E ok \in BOOLEAN :
         /\ calls' = [calls EXCEPT ![r] = Append(@, Call("vessel_exists", "", ok))]
         /\ IF ~ok
            THEN /\ Return(r, internal_err)
                 /\ UNCHANGED << iter, server_metrics >>
            ELSE IF ~vessel_exists(payload[r].vesselId)
            THEN /\ Return(r, ErrResponse("FORBIDDEN"))
                 /\ server_metrics' = InsertRow(server_metrics, MetricsRow(r))
                 /\ UNCHANGED iter
            ELSE /\ pc' = [pc EXCEPT ![r] = "classify"]
                 /\ iter' = [iter EXCEPT ![r] = DOMAIN payload[r].signals]
                 /\ UNCHANGED << response, server_metrics >>
    /\ UNCHANGED << untouched, timer, payload, ts, valid_signals, raw_pos,
                    main_raw, filtered_raw >>

\* faulty variant: vessel_exists(..).await.unwrap_or(false), a failed check reads as
\* an unknown vessel
ValidateVessel_ErrAsForbidden(r) ==
    /\ pc[r] = "validate_vessel"
    /\ mark' = [mark EXCEPT ![r].vessel_returned = clock]
    /\ \E ok \in BOOLEAN :
         /\ calls' = [calls EXCEPT ![r] = Append(@, Call("vessel_exists", "", ok))]
         /\ IF ~ok \/ ~vessel_exists(payload[r].vesselId)
            THEN /\ Return(r, ErrResponse("FORBIDDEN"))
                 /\ UNCHANGED iter
            ELSE /\ pc' = [pc EXCEPT ![r] = "classify"]
                 /\ iter' = [iter EXCEPT ![r] = DOMAIN payload[r].signals]
                 /\ UNCHANGED response
    /\ UNCHANGED << untouched, timer, payload, ts, valid_signals, raw_pos,
                    main_raw, filtered_raw, server_metrics >>

\* vessel_exists(..).await.map_err(internal_err)?; if !exists { FORBIDDEN }
ValidateVessel(r) ==
    /\ pc[r] = "validate_vessel"
    /\ mark' = [mark EXCEPT ![r].vessel_returned = clock]
    /\ \E ok \in BOOLEAN :
         /\ calls' = [calls EXCEPT ![r] = Append(@, Call("vessel_exists", "", ok))]
         /\ IF ~ok
            THEN /\ Return(r, internal_err)
                 /\ UNCHANGED iter
            ELSE IF ~vessel_exists(payload[r].vesselId)
            THEN /\ Return(r, ErrResponse("FORBIDDEN"))
                 /\ UNCHANGED iter
            ELSE /\ pc' = [pc EXCEPT ![r] = "classify"]
                 /\ iter' = [iter EXCEPT ![r] = DOMAIN payload[r].signals]
                 /\ UNCHANGED response
    /\ UNCHANGED << untouched, timer, payload, ts, valid_signals, raw_pos,
                    main_raw, filtered_raw, server_metrics >>

\* faulty variant: the result of insert_filtered is dropped (`let _ =` without `?`)
ClassifySignal_IgnoreError(r) ==
    /\ pc[r] = "classify"
    /\ \E name \in iter[r] :
         LET kind_opt == RegistryGet(signal_registry, name)
             outcome == Classify(kind_opt, payload[r].signals[name])
         IN
         /\ iter' = [iter EXCEPT ![r] = @ \ {name}]
         /\ IF outcome.accepted
            THEN /\ valid_signals' = [valid_signals EXCEPT ![r] =
                        Append(@, [name |-> name, value |-> outcome.value])]
                 /\ UNCHANGED << calls, filtered_raw >>
            ELSE /\ UNCHANGED valid_signals
                 /\ \E ok \in BOOLEAN :
                      /\ calls' = [calls EXCEPT ![r] =
                             Append(@, Call("insert_filtered", name, ok))]
                      /\ IF ok
                         THEN filtered_raw' = InsertRow(filtered_raw,
                                    FilteredRow(r, name, outcome.value, outcome.reason))
                         ELSE UNCHANGED filtered_raw
    /\ UNCHANGED << untouched, timer, mark, pc, response, payload, ts, raw_pos,
                    main_raw, server_metrics >>

\* faulty variant: an Accepted reading is written to main_raw inside the loop
ClassifySignal_WriteInline(r) ==
    /\ pc[r] = "classify"
    /\ \E name \in iter[r] :
         LET kind_opt == RegistryGet(signal_registry, name)
             outcome == Classify(kind_opt, payload[r].signals[name])
             sig == [name |-> name, value |-> outcome.value]
         IN
         /\ iter' = [iter EXCEPT ![r] = @ \ {name}]
         /\ \E ok \in BOOLEAN :
              /\ calls' = [calls EXCEPT ![r] = Append(@,
                     Call(IF outcome.accepted THEN "insert_raw" ELSE "insert_filtered",
                          name, ok))]
              /\ IF ok
                 THEN /\ IF outcome.accepted
                         THEN /\ main_raw' = InsertRow(main_raw, RawRow(r, sig))
                              /\ UNCHANGED filtered_raw
                         ELSE /\ filtered_raw' = InsertRow(filtered_raw,
                                    FilteredRow(r, name, outcome.value, outcome.reason))
                              /\ UNCHANGED main_raw
                      /\ UNCHANGED << pc, response >>
                 ELSE /\ Return(r, internal_err)
                      /\ UNCHANGED << main_raw, filtered_raw >>
    /\ UNCHANGED << untouched, timer, mark, payload, ts, raw_pos, valid_signals,
                    server_metrics >>

\* faulty variant: once a reading of the batch has been quarantined, a later
\* Accepted reading is not pushed onto valid_signals
ClassifySignal_SkipAfterQuarantine(r) ==
    /\ pc[r] = "classify"
    /\ \E name \in iter[r] :
         LET kind_opt == RegistryGet(signal_registry, name)
             outcome == Classify(kind_opt, payload[r].signals[name])
             quarantined == \E i \in 1..Len(calls[r]) : calls[r][i].op = "insert_filtered"
         IN
         /\ iter' = [iter EXCEPT ![r] = @ \ {name}]
         /\ IF outcome.accepted
            THEN /\ valid_signals' = [valid_signals EXCEPT ![r] =
                        IF quarantined THEN @
                        ELSE Append(@, [name |-> name, value |-> outcome.value])]
                 /\ UNCHANGED << pc, response, calls, filtered_raw >>
            ELSE /\ UNCHANGED valid_signals
                 /\ \E ok \in BOOLEAN :
                      /\ calls' = [calls EXCEPT ![r] =
                             Append(@, Call("insert_filtered", name, ok))]
                      /\ IF ok
                         THEN /\ filtered_raw' = InsertRow(filtered_raw,
                                    FilteredRow(r, name, outcome.value, outcome.reason))
                              /\ UNCHANGED << pc, response >>
                         ELSE /\ Return(r, internal_err)
                              /\ UNCHANGED filtered_raw
    /\ UNCHANGED << untouched, timer, mark, payload, ts, raw_pos, main_raw, server_metrics >>

\* faulty variant: a name missing from the registry is added to it as Analog once
\* its reading has been quarantined
ClassifySignal_AutoRegister(r) ==
    /\ pc[r] = "classify"
    /\ \E name \in iter[r] :
         LET kind_opt == RegistryGet(signal_registry, name)
             outcome == Classify(kind_opt, payload[r].signals[name])
         IN
         /\ iter' = [iter EXCEPT ![r] = @ \ {name}]
         /\ signal_registry' =
                IF kind_opt = "None"
                THEN MapInsert(signal_registry, name, "Analog")
                ELSE signal_registry
         /\ IF outcome.accepted
            THEN /\ valid_signals' = [valid_signals EXCEPT ![r] =
                        Append(@, [name |-> name, value |-> outcome.value])]
                 /\ UNCHANGED << pc, response, calls, filtered_raw >>
            ELSE /\ UNCHANGED valid_signals
                 /\ \E ok \in BOOLEAN :
                      /\ calls' = [calls EXCEPT ![r] =
                             Append(@, Call("insert_filtered", name, ok))]
                      /\ IF ok
                         THEN /\ filtered_raw' = InsertRow(filtered_raw,
                                    FilteredRow(r, name, outcome.value, outcome.reason))
                              /\ UNCHANGED << pc, response >>
                         ELSE /\ Return(r, internal_err)
                              /\ UNCHANGED filtered_raw
    /\ UNCHANGED << register_rows, boot, authorization, clock, timer, mark,
                    payload, ts, raw_pos, main_raw, server_metrics >>

\* one turn of `for (name, value) in payload.signals.iter()`: the iterator
\* yields some entry not yet seen; an accepted reading is pushed to
\* valid_signals, any other is written with insert_filtered(..).await?
ClassifySignal(r) ==
    /\ pc[r] = "classify"
    /\ \E name \in iter[r] :
         LET kind_opt == RegistryGet(signal_registry, name)
             outcome == Classify(kind_opt, payload[r].signals[name])
         IN
         /\ iter' = [iter EXCEPT ![r] = @ \ {name}]
         /\ IF outcome.accepted
            THEN /\ valid_signals' = [valid_signals EXCEPT ![r] =
                        Append(@, [name |-> name, value |-> outcome.value])]
                 /\ UNCHANGED << pc, response, calls, filtered_raw >>
            ELSE /\ UNCHANGED valid_signals
                 /\ \E ok \in BOOLEAN :
                      /\ calls' = [calls EXCEPT ![r] =
                             Append(@, Call("insert_filtered", name, ok))]
                      /\ IF ok
                         THEN /\ filtered_raw' = InsertRow(filtered_raw,
                                    FilteredRow(r, name, outcome.value, outcome.reason))
                              /\ UNCHANGED << pc, response >>
                         ELSE /\ Return(r, internal_err)
                              /\ UNCHANGED filtered_raw
    /\ UNCHANGED << untouched, timer, mark, payload, ts, raw_pos, main_raw, server_metrics >>

\* faulty variant: the loop is left as soon as one reading has been Accepted
ClassifyDone_EarlyExit(r) ==
    /\ pc[r] = "classify"
    /\ iter[r] = {} \/ valid_signals[r] # << >>
    /\ pc' = [pc EXCEPT ![r] = "insert_raw"]
    /\ timer' = [timer EXCEPT ![r].validation_ms = elapsed_ms(timer[r].validation_start),
                              ![r].ingestion_start = clock]
    /\ mark' = [mark EXCEPT ![r].classified = clock]
    /\ UNCHANGED << untouched, payload, ts, iter, valid_signals, raw_pos,
                    response, calls, main_raw, filtered_raw, server_metrics >>

\* faulty variant: validation_ms is measured from total_start
ClassifyDone_FromTotalStart(r) ==
    /\ pc[r] = "classify"
    /\ iter[r] = {}
    /\ pc' = [pc EXCEPT ![r] = "insert_raw"]
    /\ timer' = [timer EXCEPT ![r].validation_ms = elapsed_ms(timer[r].total_start),
                              ![r].ingestion_start = clock]
    /\ mark' = [mark EXCEPT ![r].classified = clock]
    /\ UNCHANGED << untouched, payload, ts, iter, valid_signals, raw_pos,
                    response, calls, main_raw, filtered_raw, server_metrics >>

\* the classification loop ends: validation_ms is taken, the insert loop starts
ClassifyDone(r) ==
    /\ pc[r] = "classify"
    /\ iter[r] = {}
    /\ pc' = [pc EXCEPT ![r] = "insert_raw"]
    /\ timer' = [timer EXCEPT ![r].validation_ms = elapsed_ms(timer[r].validation_start),
                              ![r].ingestion_start = clock]
    /\ mark' = [mark EXCEPT ![r].classified = clock]
    /\ UNCHANGED << untouched, payload, ts, iter, valid_signals, raw_pos,
                    response, calls, main_raw, filtered_raw, server_metrics >>

\* faulty variant: the first failure of insert_raw is retried
InsertRaw_RetryOnce(r) ==
    /\ pc[r] = "insert_raw"
    /\ raw_pos[r] <= Len(valid_signals[r])
    /\ LET sig == valid_signals[r][raw_pos[r]]
           failed_before == \E i \in 1..Len(calls[r]) : ~calls[r][i].ok
       IN
       \E ok \in BOOLEAN :
         /\ calls' = [calls EXCEPT ![r] = Append(@, Call("insert_raw", sig.name, ok))]
         /\ IF ok
            THEN /\ main_raw' = InsertRow(main_raw, RawRow(r, sig))
                 /\ raw_pos' = [raw_pos EXCEPT ![r] = @ + 1]
                 /\ UNCHANGED << pc, response >>
            ELSE /\ IF failed_before
                    THEN Return(r, internal_err)
                    ELSE UNCHANGED << pc, response >>
                 /\ UNCHANGED << main_raw, raw_pos >>
    /\ UNCHANGED << untouched, timer, mark, payload, ts, iter, valid_signals,
                    filtered_raw, server_metrics >>

\* faulty variant: the metrics row is written on the failure path of insert_raw too
InsertRaw_MetricsOnFailure(r) ==
    /\ pc[r] = "insert_raw"
    /\ raw_pos[r] <= Len(valid_signals[r])
    /\ LET sig == valid_signals[r][raw_pos[r]] IN
       \E ok \in BOOLEAN :
         /\ calls' = [calls EXCEPT ![r] = Append(@, Call("insert_raw", sig.name, ok))]
         /\ IF ok
            THEN /\ main_raw' = InsertRow(main_raw, RawRow(r, sig))
                 /\ raw_pos' = [raw_pos EXCEPT ![r] = @ + 1]
                 /\ UNCHANGED << pc, response, server_metrics >>
            ELSE /\ Return(r, internal_err)
                 /\ server_metrics' = InsertRow(server_metrics, MetricsRow(r))
                 /\ UNCHANGED << main_raw, raw_pos >>
    /\ UNCHANGED << untouched, timer, mark, payload, ts, iter, valid_signals,
                    filtered_raw >>

\* one turn of `for sig in &valid_signals { insert_raw(..).await? }`
InsertRaw(r) ==
    /\ pc[r] = "insert_raw"
    /\ raw_pos[r] <= Len(valid_signals[r])
    /\ LET sig == valid_signals[r][raw_pos[r]] IN
       \E ok \in BOOLEAN :
         /\ calls' = [calls EXCEPT ![r] = Append(@, Call("insert_raw", sig.name, ok))]
         /\ IF ok
            THEN /\ main_raw' = InsertRow(main_raw, RawRow(r, sig))
                 /\ raw_pos' = [raw_pos EXCEPT ![r] = @ + 1]
                 /\ UNCHANGED << pc, response >>
            ELSE /\ Return(r, internal_err)
                 /\ UNCHANGED << main_raw, raw_pos >>
    /\ UNCHANGED << untouched, timer, mark, payload, ts, iter, valid_signals,
                    filtered_raw, server_metrics >>

\* faulty variant: the loop over valid_signals waits for one signal more than
\* the list holds, so it is never left
InsertDone_OneMore(r) ==
    /\ pc[r] = "insert_raw"
    /\ raw_pos[r] > Len(valid_signals[r]) + 1
    /\ pc' = [pc EXCEPT ![r] = "record_metrics"]
    /\ timer' = [timer EXCEPT ![r].ingestion_ms = elapsed_ms(timer[r].ingestion_start),
                              ![r].total_ms = elapsed_ms(timer[r].total_start)]
    /\ mark' = [mark EXCEPT ![r].inserted = clock]
    /\ UNCHANGED << untouched, payload, ts, iter, valid_signals, raw_pos,
                    response, calls, main_raw, filtered_raw, server_metrics >>

\* faulty variant: ingestion_ms is measured from validation_start
InsertDone_FromValidationStart(r) ==
    /\ pc[r] = "insert_raw"
    /\ raw_pos[r] > Len(valid_signals[r])
    /\ pc' = [pc EXCEPT ![r] = "record_metrics"]
    /\ timer' = [timer EXCEPT ![r].ingestion_ms = elapsed_ms(timer[r].validation_start),
                              ![r].total_ms = elapsed_ms(timer[r].total_start)]
    /\ mark' = [mark EXCEPT ![r].inserted = clock]
    /\ UNCHANGED << untouched, payload, ts, iter, valid_signals, raw_pos,
                    response, calls, main_raw, filtered_raw, server_metrics >>

\* the insert loop ends: ingestion_ms and total_ms are taken
InsertDone(r) ==
    /\ pc[r] = "insert_raw"
    /\ raw_pos[r] > Len(valid_signals[r])
    /\ pc' = [pc EXCEPT ![r] = "record_metrics"]
    /\ timer' = [timer EXCEPT ![r].ingestion_ms = elapsed_ms(timer[r].ingestion_start),
                              ![r].total_ms = elapsed_ms(timer[r].total_start)]
    /\ mark' = [mark EXCEPT ![r].inserted = clock]
    /\ UNCHANGED << untouched, payload, ts, iter, valid_signals, raw_pos,
                    response, calls, main_raw, filtered_raw, server_metrics >>

\* faulty variant: validSignals reports payload.signals.len()
RecordMetrics_CountAll(r) ==
    /\ pc[r] = "record_metrics"
    /\ \E ok \in BOOLEAN :
         /\ calls' = [calls EXCEPT ![r] = Append(@, Call("insert_metrics", "", ok))]
         /\ IF ok
            THEN /\ server_metrics' = InsertRow(server_metrics, MetricsRow(r))
                 /\ Return(r, OkResponse(Cardinality(DOMAIN payload[r].signals), timer[r]))
            ELSE /\ Return(r, internal_err)
                 /\ UNCHANGED server_metrics
    /\ UNCHANGED << untouched, timer, mark, payload, ts, iter, valid_signals, raw_pos,
                    main_raw, filtered_raw >>

\* insert_metrics(..).await.map_err(internal_err)?; Ok(Json(..))
RecordMetrics(r) ==
    /\ pc[r] = "record_metrics"
    /\ \E ok \in BOOLEAN :
         /\ calls' = [calls EXCEPT ![r] = Append(@, Call("insert_metrics", "", ok))]
         /\ IF ok
            THEN /\ server_metrics' = InsertRow(server_metrics, MetricsRow(r))
                 /\ Return(r, OkResponse(Len(valid_signals[r]), timer[r]))
            ELSE /\ Return(r, internal_err)
                 /\ UNCHANGED server_metrics
    /\ UNCHANGED << untouched, timer, mark, payload, ts, iter, valid_signals, raw_pos,
                    main_raw, filtered_raw >>

\* ingest_telemetry, from one suspension point to the next
Handler(r) ==
    \/ ParseTimestamp(r)
    \/ ValidateVessel(r)
    \/ ClassifySignal(r)
    \/ ClassifyDone(r)
    \/ InsertRaw(r)
    \/ InsertDone(r)
    \/ RecordMetrics(r)

\* the clock moves on while a handler computes or awaits a storage call
Tick ==
    /\ clock < MaxClock
    /\ clock' = clock + 1
    /\ UNCHANGED << register_rows, boot, signal_registry, authorization, timer, mark,
                    pc, payload, ts, iter, valid_signals, raw_pos,
                    response, calls, main_raw, filtered_raw, server_metrics >>

\* the protected route: the gate, then the handler
Route(r) == Arrive(r) \/ AuthMiddleware(r) \/ Receive(r) \/ Handler(r)

Next == \E r \in Requests : Route(r)

Spec == Init /\ [][Next]_vars

\* the handler of the one request of InitReading
NextReading == Handler("r1")

SpecReading == InitReading /\ [][NextReading]_vars

\* one request of InitOne while the clock runs
NextTiming == Handler("r1") \/ Tick

SpecTiming == InitOne /\ [][NextTiming]_vars

\* one request of InitOne whose handler is polled until it returns, each
\* storage call it awaits returning in the end, with Ok or with Err
SpecLive == InitOne /\ [][NextReading]_vars /\ WF_vars(Handler("r1"))

\* startup over any content of signal_register_table
SpecLoad == InitLoad /\ [][LoadRegistry]_vars

\* ------------------------------------------------------------- observation
\* rows of a table that request r wrote, as a set and as a count
RowsOf(table, r) == {row \in BagToSet(table) : row.req = r}
CountOf(table, r) == BagCardinality([row \in RowsOf(table, r) |-> table[row]])

\* positions of the calls of request r that are writes
WriteOps == {"insert_filtered", "insert_raw", "insert_metrics"}
WriteCalls(r) == {i \in 1..Len(calls[r]) : calls[r][i].op \in WriteOps}

Terminated(r) == pc[r] = "done"
\* the request has passed the gate and ingest_telemetry has been entered
InHandler(r) == pc[r] \notin {"idle", "auth", "next"} /\ response[r].status # "UNAUTHORIZED"
Status(r) == response[r].status

\* C1: a request rejected with BAD_REQUEST or FORBIDDEN has issued no write
\* call, and no table holds a row of that request.
C1_RejectedWritesNothing ==
    \A r \in Requests :
        Status(r) \in {"BAD_REQUEST", "FORBIDDEN"} =>
            /\ WriteCalls(r) = {}
            /\ RowsOf(main_raw, r) = {}
            /\ RowsOf(filtered_raw, r) = {}
            /\ RowsOf(server_metrics, r) = {}

\* a request with readings was rejected for its timestamp, another one for
\* its vessel, while the tables are being written on
C1_Witness ==
    \E r1 \in Requests, r2 \in Requests :
        /\ Status(r1) = "BAD_REQUEST"
        /\ Status(r2) = "FORBIDDEN"
        /\ DOMAIN payload[r1].signals # {}
        /\ DOMAIN payload[r2].signals # {}

\* C2: a failed storage call is the last call of its request, the request has
\* ended with INTERNAL_SERVER_ERROR, and every write of the request that
\* succeeded before it still has its row in its table.
C2_FailureAborts ==
    \A r \in Requests :
        /\ \A i \in 1..Len(calls[r]) :
              ~calls[r][i].ok =>
                  /\ i = Len(calls[r])
                  /\ Terminated(r)
                  /\ Status(r) = "INTERNAL_SERVER_ERROR"
        /\ \A i \in WriteCalls(r) :
              calls[r][i].ok =>
                  LET table == CASE calls[r][i].op = "insert_filtered" -> filtered_raw
                                 [] calls[r][i].op = "insert_raw" -> main_raw
                                 [] OTHER -> server_metrics
                  IN \E row \in RowsOf(table, r) :
                        calls[r][i].op # "insert_metrics" =>
                            row.signal_name = calls[r][i].name
        /\ Status(r) = "INTERNAL_SERVER_ERROR" =>
              /\ Len(calls[r]) > 0
              /\ ~calls[r][Len(calls[r])].ok

\* a request was aborted by a failed write after an earlier write of it had
\* succeeded, and the earlier row is in its table
C2_Witness ==
    \E r \in Requests :
        /\ Status(r) = "INTERNAL_SERVER_ERROR"
        /\ Len(calls[r]) >= 3
        /\ calls[r][2].ok
        /\ RowsOf(filtered_raw, r) \cup RowsOf(main_raw, r) # {}

\* C3: in a success response validSignals is the number of rows the request
\* wrote to main_raw (its Accepted readings), and these plus the rows it wrote
\* to filtered_raw (its Quarantined readings) are as many as the entries of
\* its signal map.
C3_CountInvariant ==
    \A r \in Requests :
        Status(r) = "OK" =>
            /\ response[r].validSignals = CountOf(main_raw, r)
            /\ response[r].validSignals = Len(valid_signals[r])
            /\ CountOf(main_raw, r) + CountOf(filtered_raw, r)
                   = Cardinality(DOMAIN payload[r].signals)

\* a success with one Accepted and one Quarantined reading
C3_Witness ==
    \E r \in Requests :
        /\ Status(r) = "OK"
        /\ response[r].validSignals = 1
        /\ CountOf(filtered_raw, r) = 1

\* C9: a request whose timestamp does not parse ends with BAD_REQUEST and has
\* not called vessel_exists, whatever its vessel; with a timestamp that
\* parses, the first call is vessel_exists: when it returns false the request
\* ends with FORBIDDEN, when it fails the request ends with
\* INTERNAL_SERVER_ERROR; FORBIDDEN is returned in no other case.
C9_StepOrder ==
    \A r \in Requests :
        LET tsOk == payload[r].timestampUTC \in DOMAIN Rfc3339
            active == [vessel_id |-> payload[r].vesselId, is_active |-> TRUE]
                          \in vessel_register_table
        IN
        /\ InHandler(r) /\ pc[r] # "parse_timestamp" /\ ~tsOk =>
              /\ Terminated(r)
              /\ Status(r) = "BAD_REQUEST"
              /\ calls[r] = << >>
        /\ Status(r) = "BAD_REQUEST" => ~tsOk
        /\ calls[r] # << >> => tsOk /\ calls[r][1].op = "vessel_exists"
        /\ InHandler(r) /\ pc[r] \notin {"parse_timestamp", "validate_vessel"} /\ tsOk =>
              /\ calls[r] # << >>
              /\ calls[r][1].ok /\ ~active =>
                    Terminated(r) /\ Status(r) = "FORBIDDEN" /\ Len(calls[r]) = 1
              /\ ~calls[r][1].ok =>
                    Terminated(r) /\ Status(r) = "INTERNAL_SERVER_ERROR"
        /\ Status(r) = "FORBIDDEN" => tsOk /\ ~active /\ calls[r][1].ok

\* a malformed timestamp was rejected for a request of an unknown vessel, and
\* a failed vessel check ended another request
C9_Witness ==
    \E r1 \in Requests, r2 \in Requests :
        /\ Status(r1) = "BAD_REQUEST"
        /\ payload[r1].vesselId = "V999"
        /\ Status(r2) = "INTERNAL_SERVER_ERROR"
        /\ Len(calls[r2]) = 1
        /\ payload[r2].vesselId = "V999"

\* C10: a request that ended with success has exactly one row in
\* server_metrics, insert_metrics is the last storage call of any request
\* that issues it, and a request that ended otherwise has no row there.
C10_MetricsLast ==
    \A r \in Requests :
        /\ Status(r) = "OK" =>
              /\ CountOf(server_metrics, r) = 1
              /\ Len(calls[r]) > 0
              /\ calls[r][Len(calls[r])] = Call("insert_metrics", "", TRUE)
        /\ \A i \in 1..Len(calls[r]) :
              calls[r][i].op = "insert_metrics" => i = Len(calls[r])
        /\ Status(r) # "OK" => CountOf(server_metrics, r) = 0
        /\ CountOf(server_metrics, r) > 0 =>
              \A i \in WriteCalls(r) :
                  calls[r][i].op # "insert_metrics" =>
                      calls[r][i].ok /\ i < Len(calls[r])

\* a success that wrote to both signal tables before its metrics row
C10_Witness ==
    \E r \in Requests :
        /\ Status(r) = "OK"
        /\ RowsOf(main_raw, r) # {}
        /\ RowsOf(filtered_raw, r) # {}
        /\ CountOf(server_metrics, r) = 1

\* ------------------------------------------- observation of classification
\* the classification loop of request r has been entered
LoopEntered(r) ==
    \/ pc[r] \in {"classify", "insert_raw", "record_metrics"}
    \/ Terminated(r) /\ Status(r) = "OK"
    \/ Terminated(r) /\ Status(r) = "INTERNAL_SERVER_ERROR" /\ Len(calls[r]) >= 2

\* the loop has dealt with the reading `name` of request r
Classified(r, name) ==
    /\ LoopEntered(r)
    /\ name \in DOMAIN payload[r].signals
    /\ name \notin iter[r]

\* outcome Accepted(val_f): the reading is in valid_signals with that value
AcceptedAs(r, name, val_f) ==
    \E i \in 1..Len(valid_signals[r]) :
        valid_signals[r][i] = [name |-> name, value |-> val_f]
IsAccepted(r, name) ==
    \E i \in 1..Len(valid_signals[r]) : valid_signals[r][i].name = name

\* outcome Quarantined(val_f, reason): insert_filtered was called for the
\* reading, and every row it wrote carries val_f and reason
FilteredRows(r, name) == {row \in RowsOf(filtered_raw, r) : row.signal_name = name}
QuarantinedAs(r, name, val_f, reason) ==
    /\ ~IsAccepted(r, name)
    /\ \E i \in 1..Len(calls[r]) :
          calls[r][i].op = "insert_filtered" /\ calls[r][i].name = name
    /\ \A row \in FilteredRows(r, name) :
          row.signal_value = val_f /\ row.reason = reason
QuarantinedFor(r, name, reason) ==
    /\ ~IsAccepted(r, name)
    /\ \E i \in 1..Len(calls[r]) :
          calls[r][i].op = "insert_filtered" /\ calls[r][i].name = name
    /\ \A row \in FilteredRows(r, name) : row.reason = reason

IsInteger(value) == value.tag \in {"PosInt", "NegInt"}
\* the number a JSON number denotes, as a float
NumericValue(value) == [nan |-> FALSE, int |-> value.int, half |-> value.half]

DigitalNames == {"bilgeAlarm"}
AnalogNames == {"engineTemp"}
UnknownNames == {"unknownSig"}

\* C4: every row of main_raw is for a registered name and has a finite value:
\* 0.0 or 1.0 for a digital signal, within [1.0, 65535.0] for an analog one.
C4_RawRowsValid ==
    \A row \in BagToSet(main_raw) :
        /\ row.signal_name \in DigitalNames \cup AnalogNames
        /\ ~row.signal_value.nan
        /\ row.signal_name \in DigitalNames =>
              /\ ~row.signal_value.half
              /\ row.signal_value.int \in {0, 1}
        /\ row.signal_name \in AnalogNames =>
              /\ row.signal_value.int >= AnalogMin
              /\ \/ row.signal_value.int < AnalogMax
                 \/ row.signal_value.int = AnalogMax /\ ~row.signal_value.half

\* main_raw holds a row for an analog reading of exactly 65535.0
C4_Witness ==
    \E row \in BagToSet(main_raw) :
        row.signal_name = "engineTemp" /\ row.signal_value = F(AnalogMax)

\* C5: a digital reading with an integer value is Accepted (as 0.0 or 1.0)
\* exactly when the integer is 0 or 1 and Quarantined with out_of_range for
\* any other integer; with any other JSON value it is Quarantined with NaN
\* and type_mismatch.
C5_DigitalTable ==
    \A r \in Requests : \A name \in DigitalNames :
        Classified(r, name) =>
            LET value == payload[r].signals[name] IN
            IF IsInteger(value)
            THEN IF value.int \in {0, 1}
                 THEN AcceptedAs(r, name, F(value.int)) /\ FilteredRows(r, name) = {}
                 ELSE QuarantinedFor(r, name, "out_of_range")
            ELSE QuarantinedAs(r, name, NaN, "type_mismatch")

\* a digital reading above the signed range was written as out_of_range
C5_Witness ==
    \E r \in Requests : \E row \in FilteredRows(r, "bilgeAlarm") :
        /\ payload[r].signals["bilgeAlarm"].tag = "PosInt"
        /\ payload[r].signals["bilgeAlarm"].int > I64Max
        /\ row.reason = "out_of_range"

\* C6: the filtered_raw row of a digital reading with an integer other than
\* 0 and 1 carries that integer as a float, with reason out_of_range.
C6_OwnValue ==
    \A r \in Requests : \A name \in DigitalNames :
        LET value == payload[r].signals[name] IN
        Classified(r, name) /\ IsInteger(value) /\ value.int \notin {0, 1} =>
            QuarantinedAs(r, name, NumericValue(value), "out_of_range")

\* C7: an analog reading with a float value is Accepted with that value
\* exactly when 1.0 <= value <= 65535.0 and Quarantined with the value and
\* out_of_range otherwise; with any other JSON value, integers included, it
\* is Quarantined with NaN and type_mismatch.
C7_AnalogTable ==
    \A r \in Requests : \A name \in AnalogNames :
        Classified(r, name) =>
            LET value == payload[r].signals[name]
                inRange == /\ value.int >= AnalogMin
                           /\ \/ value.int < AnalogMax
                              \/ value.int = AnalogMax /\ ~value.half
            IN
            IF value.tag = "Float"
            THEN IF inRange
                 THEN AcceptedAs(r, name, NumericValue(value)) /\ FilteredRows(r, name) = {}
                 ELSE QuarantinedAs(r, name, NumericValue(value), "out_of_range")
            ELSE QuarantinedAs(r, name, NaN, "type_mismatch")

\* an analog reading sent as an integer inside the range was written as a
\* type mismatch
C7_Witness ==
    \E r \in Requests : \E row \in FilteredRows(r, "engineTemp") :
        /\ payload[r].signals["engineTemp"] = PosInt(AnalogMin)
        /\ row.reason = "type_mismatch"
        /\ row.signal_value = NaN

\* C8: a reading whose name is not in the registry is never Accepted; it is
\* Quarantined with unknown_signal, carrying its numeric value when the JSON
\* value is a number and NaN otherwise.
C8_UnknownTable ==
    \A r \in Requests : \A name \in UnknownNames :
        Classified(r, name) =>
            LET value == payload[r].signals[name] IN
            QuarantinedAs(r, name,
                          IF IsNumber(value) THEN NumericValue(value) ELSE NaN,
                          "unknown_signal")

\* an unknown reading with the largest unsigned integer was written with
\* that value
C8_Witness ==
    \E r \in Requests : \E row \in FilteredRows(r, "unknownSig") :
        /\ payload[r].signals["unknownSig"] = PosInt(U64Max)
        /\ row.reason = "unknown_signal"
        /\ row.signal_value = F(U64Max)

\* ------------------------------------------------------------------ timing
\* C11 as stated: validationMs of a metrics row is the time from the return
\* of the vessel check to the end of the classification loop, and ingestionMs
\* the time of the insert loop.
C11_WindowAfterVesselCheck ==
    \A r \in Requests : \A row \in RowsOf(server_metrics, r) :
        /\ row.validation_ms = as_millis(mark[r].classified - mark[r].vessel_returned)
        /\ row.ingestion_ms = as_millis(mark[r].inserted - mark[r].classified)

\* C11, amended: validationMs of a metrics row is the time from the call of
\* the vessel check (validation_start is taken before vessel_exists is
\* awaited) to the end of the classification loop, so it includes the vessel
\* check; ingestionMs is the time of the insert loop only.
C11_WindowFromVesselCall ==
    \A r \in Requests : \A row \in RowsOf(server_metrics, r) :
        /\ row.validation_ms = as_millis(mark[r].classified - mark[r].vessel_called)
        /\ row.ingestion_ms = as_millis(mark[r].inserted - mark[r].classified)

\* a metrics row of a request whose vessel check alone took a millisecond
\* and whose classification took no time
C11_Witness ==
    \E r \in Requests : \E row \in RowsOf(server_metrics, r) :
        /\ mark[r].vessel_returned - mark[r].vessel_called >= TicksPerMs
        /\ mark[r].classified = mark[r].vessel_returned
        /\ row.validation_ms >= 1

\* C18: every metrics row and every success response has validationMs >= 0,
\* ingestionMs >= 0 and totalMs >= validationMs + ingestionMs, and a success
\* response carries the three values of the request's metrics row.
C18_TimingsConsistent ==
    \A r \in Requests :
        /\ \A row \in RowsOf(server_metrics, r) :
              /\ row.validation_ms >= 0
              /\ row.ingestion_ms >= 0
              /\ row.total_ms >= row.validation_ms + row.ingestion_ms
        /\ Status(r) = "OK" =>
              /\ response[r].validationMs >= 0
              /\ response[r].ingestionMs >= 0
              /\ response[r].totalMs >= response[r].validationMs + response[r].ingestionMs
              /\ \A row \in RowsOf(server_metrics, r) :
                    /\ row.validation_ms = response[r].validationMs
                    /\ row.ingestion_ms = response[r].ingestionMs
                    /\ row.total_ms = response[r].totalMs
              /\ RowsOf(server_metrics, r) # {}

\* a success whose validation and ingestion each took a millisecond
C18_Witness ==
    \E r \in Requests :
        /\ Status(r) = "OK"
        /\ response[r].validationMs >= 1
        /\ response[r].ingestionMs >= 1

\* -------------------------------------------------------------------- gate
\* C12: a request whose Authorization header is anything but "Bearer "
\* followed by the configured token is answered UNAUTHORIZED by the gate and
\* ingest_telemetry never runs for it: it has no payload extracted, no
\* timer started, no storage call issued and no row in any table.
C12_GateRejects ==
    \A r \in Requests :
        pc[r] \notin {"idle", "auth"} /\ authorization[r] # BearerPrefix \o api_token =>
            /\ Terminated(r)
            /\ Status(r) = "UNAUTHORIZED"
            /\ payload[r] = NoRequest
            /\ timer[r] = NoTimer
            /\ calls[r] = << >>
            /\ RowsOf(main_raw, r) \cup RowsOf(filtered_raw, r)
                   \cup RowsOf(server_metrics, r) = {}

\* a request carrying the bare token without "Bearer " was answered 401
\* while another request went through and wrote rows
C12_Witness ==
    \E r1 \in Requests, r2 \in Requests :
        /\ authorization[r1] = api_token
        /\ Status(r1) = "UNAUTHORIZED"
        /\ Status(r2) = "OK"
        /\ RowsOf(main_raw, r2) # {}

\* ---------------------------------------------------------------- registry
\* C13: in every reachable state, whatever the requests in flight have done,
\* the registry is the map built at startup: every name is looked up to the
\* kind it had when the registry was loaded.
C13_RegistryFrozen ==
    /\ signal_registry = load_signal_registry(register_rows)
    /\ \A name \in SignalNames :
          RegistryGet(signal_registry, name)
              = CASE name \in DigitalNames -> "Digital"
                  [] name \in AnalogNames -> "Analog"
                  [] OTHER -> "None"

\* two requests are in their classification loops at the same time, one has
\* quarantined an unknown reading, the other has accepted a reading
C13_Witness ==
    \E r1 \in Requests, r2 \in Requests :
        /\ r1 # r2
        /\ pc[r1] = "classify" /\ iter[r1] # {}
        /\ pc[r2] = "classify" /\ iter[r2] # {}
        /\ FilteredRows(r1, "unknownSig") # {}
        /\ valid_signals[r2] # << >>

\* ------------------------------------------------------- processing order
\* what request r stored in a table, without the tag of the request
Stored(table, r) ==
    {[c \in DOMAIN row \ {"req"} |-> row[c]] : row \in RowsOf(table, r)}

\* C14: two requests that ended with success on the same payload have written
\* the same rows to main_raw, the same rows (reasons included) to filtered_raw
\* and report the same validSignals, in whatever order each of them went
\* through its signal map; the rows are those the classifier gives for the
\* entries of the map, one by one.
C14_OrderIndependent ==
    /\ \A r1 \in Requests, r2 \in Requests :
          Status(r1) = "OK" /\ Status(r2) = "OK" /\ payload[r1] = payload[r2] =>
              /\ Stored(main_raw, r1) = Stored(main_raw, r2)
              /\ Stored(filtered_raw, r1) = Stored(filtered_raw, r2)
              /\ response[r1].validSignals = response[r2].validSignals
    /\ \A r \in Requests :
          Status(r) = "OK" =>
              LET outcome(name) == Classify(RegistryGet(signal_registry, name),
                                            payload[r].signals[name])
                  names == DOMAIN payload[r].signals
              IN
              /\ {row.signal_name : row \in RowsOf(main_raw, r)}
                     = {name \in names : outcome(name).accepted}
              /\ {<< row.signal_name, row.reason >> : row \in RowsOf(filtered_raw, r)}
                     = {<< name, outcome(name).reason >> :
                            name \in {n \in names : ~outcome(n).accepted}}
              /\ response[r].validSignals
                     = Cardinality({name \in names : outcome(name).accepted})

\* two requests with the same two-entry map ended with success after going
\* through the map in opposite orders
C14_Witness ==
    \E r1 \in Requests, r2 \in Requests :
        /\ Status(r1) = "OK" /\ Status(r2) = "OK"
        /\ payload[r1] = payload[r2]
        /\ Len(valid_signals[r1]) = 2
        /\ valid_signals[r2] = << valid_signals[r1][2], valid_signals[r1][1] >>
        /\ valid_signals[r1][1] # valid_signals[r1][2]

\* ------------------------------------------------- coverage of the batch
\* insert_filtered was called for the reading `name` of request r
FilteredCalled(r, name) ==
    \E i \in 1..Len(calls[r]) :
        calls[r][i].op = "insert_filtered" /\ calls[r][i].name = name

\* C15 as stated: a request that has passed the vessel check ends only after
\* every reading of its batch has been classified.
C15_EveryReadingClassified ==
    \A r \in Requests :
        Terminated(r) /\ LoopEntered(r) => iter[r] = {}

\* C15 as the code has it: the loop goes on to the next reading whatever the
\* outcome of a reading was, each reading it has dealt with has exactly one
\* outcome, and a request is past the loop only when every reading has been
\* classified; the one thing that leaves readings unclassified is a failed
\* insert_filtered, which ends the request at once with INTERNAL_SERVER_ERROR.
C15_OnlyFailedWriteStopsLoop ==
    \A r \in Requests :
        /\ pc[r] \in {"insert_raw", "record_metrics"} \/ Status(r) = "OK" =>
              /\ iter[r] = {}
              /\ \A name \in DOMAIN payload[r].signals : Classified(r, name)
        /\ LoopEntered(r) =>
              \A name \in DOMAIN payload[r].signals \ iter[r] :
                  IsAccepted(r, name) # FilteredCalled(r, name)
        /\ LoopEntered(r) /\ ~Terminated(r) =>
              \A i \in 1..Len(calls[r]) : calls[r][i].ok
        /\ Terminated(r) /\ LoopEntered(r) /\ iter[r] # {} =>
              /\ Status(r) = "INTERNAL_SERVER_ERROR"
              /\ calls[r][Len(calls[r])].op = "insert_filtered"
              /\ ~calls[r][Len(calls[r])].ok

\* one request was ended by a failed quarantine write with a reading still
\* unclassified, another one is past the loop with one Accepted and one
\* Quarantined reading
C15_Witness ==
    \E r1 \in Requests, r2 \in Requests :
        /\ Terminated(r1) /\ Status(r1) = "INTERNAL_SERVER_ERROR"
        /\ iter[r1] # {}
        /\ calls[r1][Len(calls[r1])].op = "insert_filtered"
        /\ pc[r2] = "insert_raw"
        /\ Len(valid_signals[r2]) = 1
        /\ CountOf(filtered_raw, r2) = 1

\* ------------------------------------------------- one write per reading
\* positions of the write calls of request r for the reading `name`
ReadingWrites(r, name) ==
    {i \in WriteCalls(r) : calls[r][i].op # "insert_metrics" /\ calls[r][i].name = name}
\* number of rows request r has in a table for the reading `name`
RowCount(table, r, name) ==
    LET rows == {row \in RowsOf(table, r) : row.signal_name = name}
    IN BagCardinality([row \in rows |-> table[row]])

\* C16: a request issues at most one write call per reading, only for
\* readings of its batch, and no call at all after a failed one; a request
\* that ended with success has, for each reading, one row in main_raw and none
\* in filtered_raw when the classifier accepts it, one row in filtered_raw and
\* none in main_raw when the classifier quarantines it.
C16_OneWritePerReading ==
    \A r \in Requests :
        /\ \A name \in SignalNames :
              /\ Cardinality(ReadingWrites(r, name)) <= 1
              /\ ReadingWrites(r, name) # {} => name \in DOMAIN payload[r].signals
              /\ RowCount(main_raw, r, name) + RowCount(filtered_raw, r, name)
                     <= Cardinality(ReadingWrites(r, name))
        /\ \A i \in 1..Len(calls[r]) : ~calls[r][i].ok => i = Len(calls[r])
        /\ Status(r) = "OK" =>
              \A name \in DOMAIN payload[r].signals :
                  LET outcome == Classify(RegistryGet(signal_registry, name),
                                          payload[r].signals[name])
                  IN
                  /\ outcome.accepted =>
                        /\ RowCount(main_raw, r, name) = 1
                        /\ RowCount(filtered_raw, r, name) = 0
                  /\ ~outcome.accepted =>
                        /\ RowCount(main_raw, r, name) = 0
                        /\ RowCount(filtered_raw, r, name) = 1

\* one request ended with success with a row in each table, another one was
\* ended by a failed insert_raw after an earlier write of it had succeeded
C16_Witness ==
    \E r1 \in Requests, r2 \in Requests :
        /\ Status(r1) = "OK"
        /\ RowsOf(main_raw, r1) # {} /\ RowsOf(filtered_raw, r1) # {}
        /\ Status(r2) = "INTERNAL_SERVER_ERROR"
        /\ calls[r2][Len(calls[r2])].op = "insert_raw"
        /\ Len(calls[r2]) = 3

\* ------------------------------------------------------ order of the writes
\* C17: among the calls of a request no insert_filtered comes after an
\* insert_raw; when the first insert_raw is issued every reading of the batch
\* has been classified; and a request with a failed insert_filtered has
\* issued no insert_raw and has no row in main_raw.
C17_QuarantineBeforeRaw ==
    \A r \in Requests :
        LET raws == {i \in 1..Len(calls[r]) : calls[r][i].op = "insert_raw"}
            filts == {i \in 1..Len(calls[r]) : calls[r][i].op = "insert_filtered"}
        IN
        /\ \A i \in filts, j \in raws : i < j
        /\ raws # {} =>
              /\ iter[r] = {}
              /\ \A name \in DOMAIN payload[r].signals : Classified(r, name)
        /\ RowsOf(main_raw, r) # {} => raws # {}
        /\ (\E i \in filts : ~calls[r][i].ok) =>
              /\ raws = {}
              /\ RowsOf(main_raw, r) = {}

\* one request was ended by a failed quarantine write while holding an
\* Accepted reading, which is in no table; another one has issued its raw
\* write after its quarantine write
C17_Witness ==
    \E r1 \in Requests, r2 \in Requests :
        /\ Status(r1) = "INTERNAL_SERVER_ERROR"
        /\ calls[r1][Len(calls[r1])].op = "insert_filtered"
        /\ valid_signals[r1] # << >>
        /\ RowsOf(main_raw, r1) = {}
        /\ Len(calls[r2]) >= 3
        /\ calls[r2][2].op = "insert_filtered"
        /\ calls[r2][3].op = "insert_raw"

\* ------------------------------------------------------------- termination
TerminalStatuses == {"OK", "BAD_REQUEST", "FORBIDDEN", "INTERNAL_SERVER_ERROR"}

\* C19: a request that has entered the handler reaches a terminal outcome,
\* which is one of success, BAD_REQUEST, FORBIDDEN and INTERNAL_SERVER_ERROR;
\* it has no response before that, and once it has one neither the response
\* nor anything else of the request changes.
C19_OneOutcome ==
    /\ \A r \in Requests : InHandler(r) ~> Terminated(r)
    /\ [](\A r \in Requests :
            /\ InHandler(r) /\ Terminated(r) => Status(r) \in TerminalStatuses
            /\ ~Terminated(r) => response[r] = NoResponse)
    /\ [][\A r \in Requests :
            Terminated(r) =>
                /\ response'[r] = response[r]
                /\ pc'[r] = pc[r]
                /\ calls'[r] = calls[r]]_vars

\* a request with a batch of MaxBatch readings has ended with success after
\* the vessel check, a write per reading and the metrics write
C19_Witness ==
    /\ Terminated("r1")
    /\ Status("r1") = "OK"
    /\ Cardinality(DOMAIN payload["r1"].signals) = MaxBatch
    /\ Len(calls["r1"]) = MaxBatch + 2

\* -------------------------------------------------------- registry loading
\* positions of the rows of signal_register_table that carry `name`
RowsNamed(name) ==
    {i \in 1..Len(register_rows) : register_rows[i].signal_name = name}
\* the last of them in the order the rows were read
LastRow(name) ==
    register_rows[CHOOSE i \in RowsNamed(name) : \A j \in RowsNamed(name) : j <= i]

\* C20: once the registry is loaded it has an entry for exactly the names of
\* the stored rows, and the kind of a name is Digital when the type string of
\* the last row read for it is "digital", Analog for any other type string.
C20_LoadedRegistry ==
    boot = "serving" =>
        /\ DOMAIN signal_registry
               = {register_rows[i].signal_name : i \in 1..Len(register_rows)}
        /\ \A name \in DOMAIN signal_registry :
              signal_registry[name] =
                  IF LastRow(name).signal_type = "digital" THEN "Digital" ELSE "Analog"

\* the table held a "digital" row and then a "pwm" row for one name, which
\* was loaded as Analog, and a "Digital" row last for the other name
C20_Witness ==
    /\ boot = "serving"
    /\ \E i \in 1..Len(register_rows), j \in 1..Len(register_rows) :
          /\ i < j
          /\ register_rows[i].signal_name = register_rows[j].signal_name
          /\ register_rows[i].signal_type = "digital"
          /\ register_rows[j].signal_type = "pwm"
          /\ j = Len(register_rows) - 1
          /\ signal_registry[register_rows[j].signal_name] = "Analog"
    /\ register_rows[Len(register_rows)].signal_type = "Digital"
    /\ Cardinality(DOMAIN signal_registry) = 2

====
